---- MODULE Spec2Model ----
(***************************************************************************)
(* Model of the analytics cache of fraud-ex:                               *)
(*   backend/app/core/cache.py            SimpleCache (TTL store)          *)
(*   backend/app/api/routes/analytics.py  _get_cases_cached and readers    *)
(*   backend/app/api/routes/cases.py      upload_case_document,            *)
(*                                        analyze_case (invalidation)      *)
(*                                                                         *)
(* Four specifications share the variables:                                *)
(*   SpecCache   one caller driving SimpleCache, every method atomic       *)
(*   Spec        request handlers on one event loop, interleaving at the   *)
(*               awaits of the case service                                *)
(*   SpecThreads threads running the SimpleCache methods, one dictionary   *)
(*               operation per step                                        *)
(*   SpecAgg     the aggregation loops over a list of case dicts           *)
(***************************************************************************)
EXTENDS Integers, Sequences, FiniteSets, TLC

VARIABLES cache, now, last, prev, source, req, done, thr, agg, nreq

vars == <<cache, now, last, prev, source, req, done, thr, agg, nreq>>

(***************************************************************************)
(* Bounds                                                                  *)
(***************************************************************************)
MaxTime == 2

MaxClock == 31

MaxRequests == 3

MaxCalls == 4

MaxRecords == 2

MaxLongList == 11

(***************************************************************************)
(* Python values.  None is a value of its own; a list is tagged so that it *)
(* can be compared with None.                                              *)
(***************************************************************************)
None == [t |-> "None"]

PyList(items) == [t |-> "list", items |-> items]

(***************************************************************************)
(* Keys are strings, modelled as sequences of characters so that           *)
(* concatenation and startswith are computed.                              *)
(***************************************************************************)
CASES_PREFIX == <<"c", "a", "s", "e", "s", ":">>

UserA == <<"a">>

UserB == <<"b">>

Users == {UserA, UserB}

(* Mutant: one key for all users.                                          *)
cases_key_shared(user_id) == CASES_PREFIX \o UserA

cases_key(user_id) == CASES_PREFIX \o user_id

OtherKey == <<"c", "a", "s", "e">>

Keys == {cases_key(u) : u \in Users} \cup {OtherKey}

Prefixes == {CASES_PREFIX, cases_key(UserA), << >>, OtherKey, <<"s">>}

Values == {PyList(<< >>), PyList(<<1>>)}

TTLs == {1}

(* Mutant: the test is applied the wrong way round.                        *)
startswith_swapped(k, prefix) ==
    /\ Len(k) <= Len(prefix)
    /\ SubSeq(prefix, 1, Len(k)) = k

startswith(k, prefix) ==
    /\ Len(prefix) <= Len(k)
    /\ SubSeq(k, 1, Len(prefix)) = prefix

(***************************************************************************)
(* dict primitives                                                         *)
(***************************************************************************)
dict_get(d, key) == IF key \in DOMAIN d THEN d[key] ELSE None

dict_setitem(d, key, entry) ==
    [k \in DOMAIN d \cup {key} |-> IF k = key THEN entry ELSE d[k]]

dict_delitem(d, key) == [k \in DOMAIN d \ {key} |-> d[k]]

dict_delitem_raises(d, key) == key \notin DOMAIN d

dict_pop(d, key, default) ==
    [dict |-> [k \in DOMAIN d \ {key} |-> d[k]],
     ret |-> IF key \in DOMAIN d THEN d[key] ELSE default,
     raises |-> FALSE]

CacheEntry(value, expires_at) == [value |-> value, expires_at |-> expires_at]

(***************************************************************************)
(* SimpleCache methods as functions of the store c and the clock t.        *)
(***************************************************************************)
(* Mutant: an entry counts as expired at the instant t = expires_at.      *)
get_expired_ge(entry, t) == t >= entry.expires_at

get_expired(entry, t) == t > entry.expires_at

get_value(c, key, t) ==
    LET entry == dict_get(c, key)
    IN  IF entry = None THEN None
        ELSE IF get_expired(entry, t) THEN None
        ELSE entry.value

(* Mutant: reading a live entry gives it one more second.                  *)
get_cache_touch(c, key, t) ==
    LET entry == dict_get(c, key)
    IN  IF entry = None THEN c
        ELSE IF get_expired(entry, t) THEN dict_delitem(c, key)
        ELSE dict_setitem(c, key, CacheEntry(entry.value, entry.expires_at + 1))

(* Mutant: an expired entry is reported absent but left in the store.     *)
get_cache_keep(c, key, t) == c

get_cache(c, key, t) ==
    LET entry == dict_get(c, key)
    IN  IF entry = None THEN c
        ELSE IF get_expired(entry, t) THEN dict_delitem(c, key)
        ELSE c

get_raises(c, key, t) ==
    LET entry == dict_get(c, key)
    IN  /\ entry # None
        /\ get_expired(entry, t)
        /\ dict_delitem_raises(c, key)

(* Mutant: an existing entry is not overwritten.                          *)
set_cache_setdefault(c, key, value, ttl_seconds, t) ==
    IF key \in DOMAIN c THEN c
    ELSE dict_setitem(c, key, CacheEntry(value, t + ttl_seconds))

(* Mutant: an existing entry gets the new value but keeps its expires_at. *)
set_cache_inplace(c, key, value, ttl_seconds, t) ==
    IF key \in DOMAIN c
    THEN dict_setitem(c, key, CacheEntry(value, c[key].expires_at))
    ELSE dict_setitem(c, key, CacheEntry(value, t + ttl_seconds))

set_cache(c, key, value, ttl_seconds, t) ==
    dict_setitem(c, key, CacheEntry(value, t + ttl_seconds))

(* Mutant: the whole dictionary is emptied.                                *)
invalidate_cache_all(c, key) == [k \in {} |-> c[k]]

(* Mutant: the entry is popped from a copy of the dictionary.             *)
invalidate_cache_copy(c, key) == c

invalidate_cache(c, key) == dict_pop(c, key, None).dict

invalidate_raises(c, key) == dict_pop(c, key, None).raises

keys_to_remove(c, prefix) == {k \in DOMAIN c : startswith(k, prefix)}

invalidate_prefix_cache(c, prefix) ==
    [k \in DOMAIN c \ keys_to_remove(c, prefix) |-> c[k]]

EmptyDict == [k \in {} |-> None]

clear_cache(c) == EmptyDict

(***************************************************************************)
(* SpecCache: one caller, each method runs to completion.  last is the     *)
(* call that just returned (its arguments, the local it read from the      *)
(* dictionary, its return value), prev the call before it.                 *)
(***************************************************************************)
Op(op, key, value, ttl, entry, ret, raised) ==
    [op |-> op, key |-> key, value |-> value, ttl |-> ttl,
     entry |-> entry, ret |-> ret, raised |-> raised]

NoOp == Op("init", << >>, None, 0, None, None, FALSE)

Record(o) ==
    /\ last' = o
    /\ prev' = [op |-> last.op, key |-> last.key, entry |-> last.entry]

get(key) ==
    /\ cache' = get_cache(cache, key, now)
    /\ Record(Op("get", key, None, 0, dict_get(cache, key),
                 get_value(cache, key, now), get_raises(cache, key, now)))
    /\ UNCHANGED <<now, source, req, done, thr, agg, nreq>>

set(key, value, ttl_seconds) ==
    /\ cache' = set_cache(cache, key, value, ttl_seconds, now)
    /\ Record(Op("set", key, value, ttl_seconds, None, None, FALSE))
    /\ UNCHANGED <<now, source, req, done, thr, agg, nreq>>

invalidate(key) ==
    /\ cache' = invalidate_cache(cache, key)
    /\ Record(Op("invalidate", key, None, 0, dict_pop(cache, key, None).ret,
                 None, invalidate_raises(cache, key)))
    /\ UNCHANGED <<now, source, req, done, thr, agg, nreq>>

invalidate_prefix(prefix) ==
    /\ cache' = invalidate_prefix_cache(cache, prefix)
    /\ Record(Op("invalidate_prefix", prefix, None, 0,
                 keys_to_remove(cache, prefix), None, FALSE))
    /\ UNCHANGED <<now, source, req, done, thr, agg, nreq>>

clear ==
    /\ cache' = clear_cache(cache)
    /\ Record(Op("clear", << >>, None, 0, None, None, FALSE))
    /\ UNCHANGED <<now, source, req, done, thr, agg, nreq>>

Tick ==
    /\ now < MaxTime
    /\ now' = now + 1
    /\ Record(Op("tick", << >>, None, 0, None, None, FALSE))
    /\ UNCHANGED <<cache, source, req, done, thr, agg, nreq>>

InitCache ==
    /\ cache = EmptyDict
    /\ now = 0
    /\ last = NoOp
    /\ prev = [op |-> "init", key |-> << >>, entry |-> None]
    /\ source = << >>
    /\ req = << >>
    /\ done = << >>
    /\ thr = << >>
    /\ agg = << >>
    /\ nreq = 0

CallGet == \E key \in Keys : get(key)

CallSet == \E key \in Keys, value \in Values, ttl \in TTLs : set(key, value, ttl)

CallInvalidate == \E key \in Keys : invalidate(key)

CallInvalidatePrefix == \E prefix \in Prefixes : invalidate_prefix(prefix)

NextCache ==
    \/ CallGet
    \/ CallSet
    \/ CallInvalidate
    \/ CallInvalidatePrefix
    \/ clear
    \/ Tick

SpecCache == InitCache /\ [][NextCache]_vars

Live(c, key, t) == key \in DOMAIN c /\ t <= c[key].expires_at

Expired(c, key, t) == key \in DOMAIN c /\ t > c[key].expires_at

(* C3: get(key) returns the stored value exactly when an entry is present  *)
(* and now <= expires_at (the store is then left alone); in every other    *)
(* case it returns None, and an entry that was present but expired is no   *)
(* longer in the store after the get.                                      *)
C3GetStep ==
    (last'.op = "get") =>
        LET key == last'.key
        IN  /\ Live(cache, key, now) =>
                /\ last'.ret = cache[key].value
                /\ cache' = cache
            /\ ~Live(cache, key, now) => last'.ret = None
            /\ (last'.ret # None) => Live(cache, key, now)
            /\ Expired(cache, key, now) => key \notin DOMAIN cache'
            /\ ~last'.raised

C3_GetReturnsLiveOnly == [][C3GetStep]_vars

C3_Witness ==
    /\ last.op = "get"
    /\ last.entry # None
    /\ now > last.entry.expires_at
    /\ last.ret = None
    /\ last.key \notin DOMAIN cache
    /\ \E k \in DOMAIN cache : now = cache[k].expires_at

(* C4: set(key, value, ttl) with ttl > 0 followed immediately by get(key)  *)
(* (no call and no clock step in between) returns value, whatever was      *)
(* stored under key before the set.                                        *)
C4SetGetStep ==
    (last.op = "set" /\ last'.op = "get" /\ last'.key = last.key) =>
        last'.ret = last.value

C4_SetThenGet == [][C4SetGetStep]_vars

C4_Witness ==
    /\ last.op = "get"
    /\ prev.op = "set"
    /\ prev.key = last.key
    /\ last.ret = last.entry.value
    /\ last.entry.expires_at > now

(* C5: invalidate(key) leaves no entry under key and never raises; on a    *)
(* key with no entry it leaves the store unchanged; a second invalidate    *)
(* of the same key changes nothing; an entry can only appear under a key   *)
(* through set on that key, and get on a key without entry returns None,   *)
(* so get(key) returns None from invalidate(key) until the next set(key).  *)
C5InvalidateStep ==
    /\ (last'.op = "invalidate") =>
            /\ last'.key \notin DOMAIN cache'
            /\ ~last'.raised
            /\ \A k \in Keys \ {last'.key} : dict_get(cache', k) = dict_get(cache, k)
            /\ (last'.key \notin DOMAIN cache) => cache' = cache
            /\ (last.op = "invalidate" /\ last.key = last'.key) => cache' = cache
    /\ \A k \in Keys :
            (k \notin DOMAIN cache /\ k \in DOMAIN cache') =>
                (last'.op = "set" /\ last'.key = k)
    /\ (last'.op = "get" /\ last'.key \notin DOMAIN cache) => last'.ret = None

C5_InvalidateAbsentUntilSet == [][C5InvalidateStep]_vars

C5_Witness ==
    /\ last.op = "get"
    /\ prev.op = "invalidate"
    /\ prev.key = last.key
    /\ prev.entry # None
    /\ prev.entry.expires_at > now
    /\ last.ret = None

(* C6: invalidate_prefix(prefix) removes every entry whose key starts with *)
(* prefix and leaves every other entry unchanged (same value, same         *)
(* expires_at); invalidate_prefix("cases:") removes every "cases:<user>"   *)
(* entry and no other entry.                                               *)
IsPrefixOf(p, k) == \E n \in 0..Len(k) : SubSeq(k, 1, n) = p

C6PrefixStep ==
    (last'.op = "invalidate_prefix") =>
        LET prefix == last'.key
        IN  /\ DOMAIN cache' \subseteq DOMAIN cache
            /\ \A k \in DOMAIN cache :
                    IF IsPrefixOf(prefix, k)
                    THEN k \notin DOMAIN cache'
                    ELSE k \in DOMAIN cache' /\ cache'[k] = cache[k]
            /\ (prefix = CASES_PREFIX) =>
                    /\ \A u \in Users : cases_key(u) \notin DOMAIN cache'
                    /\ dict_get(cache', OtherKey) = dict_get(cache, OtherKey)

C6_InvalidatePrefixFrame == [][C6PrefixStep]_vars

C6_Witness ==
    /\ last.op = "invalidate_prefix"
    /\ last.key = CASES_PREFIX
    /\ last.entry = {cases_key(u) : u \in Users}
    /\ OtherKey \in DOMAIN cache

(* C7 as stated: once now >= expires_at, including the instant at which    *)
(* now equals expires_at, get(key) returns None and removes the entry.     *)
C7OrigStep ==
    (last'.op = "get" /\ last'.key \in DOMAIN cache
        /\ now >= cache[last'.key].expires_at) =>
            /\ last'.ret = None
            /\ last'.key \notin DOMAIN cache'

C7_Original == [][C7OrigStep]_vars

(* C7 amended: once now > expires_at, get(key) returns None and removes    *)
(* the entry, and a set on that key right after stores exactly the new     *)
(* value with expires_at = now + ttl; at the instant now = expires_at the  *)
(* entry is still live: get returns its value and keeps it.                *)
C7ExpiryStep ==
    /\ (last'.op = "get" /\ Expired(cache, last'.key, now)) =>
            /\ last'.ret = None
            /\ last'.key \notin DOMAIN cache'
    /\ (last'.op = "get" /\ last'.key \in DOMAIN cache
            /\ now = cache[last'.key].expires_at) =>
            /\ last'.ret = cache[last'.key].value
            /\ last'.key \in DOMAIN cache'
    /\ (last.op = "get" /\ last.entry # None /\ last.ret = None
            /\ last'.op = "set" /\ last'.key = last.key) =>
            /\ last.key \notin DOMAIN cache
            /\ cache'[last.key] = CacheEntry(last'.value, now + last'.ttl)

C7_ExpiredRemoved == [][C7ExpiryStep]_vars

C7_Witness ==
    /\ last.op = "set"
    /\ prev.op = "get"
    /\ prev.key = last.key
    /\ prev.entry # None
    /\ now > prev.entry.expires_at
    /\ cache[last.key] = CacheEntry(last.value, now + last.ttl)
(***************************************************************************)
(* Spec: the request handlers of analytics.py and cases.py on one event    *)
(* loop.  A handler runs without interruption up to an await of the case   *)
(* service; the service acts on the case source while the handler is       *)
(* suspended; the handler then resumes and runs to its return.             *)
(***************************************************************************)
CACHE_TTL == 30

Procs == {1, 2}

(* What CaseService returns for one case: the five fields the analytics    *)
(* read, and a field they do not.                                          *)
NewCase(case_id) ==
    [case_id |-> case_id, status |-> "pending", risk_score |-> None,
     signals |-> None, created_at |-> 0, filename |-> "upload.pdf"]

case_dict(c) ==
    [case_id |-> c.case_id, status |-> c.status, risk_score |-> c.risk_score,
     signals |-> c.signals, created_at |-> c.created_at]

case_dicts(cases) == PyList([i \in 1..Len(cases) |-> case_dict(cases[i])])

(* Mutant: the hit test is the truthiness of the cached list.             *)
cache_hit_truthy(cached) == cached # None /\ cached.items # << >>

cache_hit(cached) == cached # None

create_case_from_upload(cases) == Append(cases, NewCase(Len(cases) + 1))

queue_analysis(cases, case_id) ==
    [i \in 1..Len(cases) |->
        IF cases[i].case_id = case_id
        THEN [cases[i] EXCEPT !.status = "analyzing"]
        ELSE cases[i]]

CaseIds == {1, 2}

Idle ==
    [pc |-> "idle", handler |-> "", user |-> << >>, case_id |-> 0,
     cases |-> << >>, ret |-> None, status |-> 0, calls |-> 0,
     expires_at |-> 0, overlap |-> FALSE, removed |-> None, exc |-> "",
     detail |-> << >>]

Reading(q, user_id) ==
    /\ req[q].pc \in {"list_cases", "list_cases_returned"}
    /\ req[q].user = user_id

(* _get_cases_cached up to its await: cache lookup, return on a hit.       *)
StartRead(p, user_id) ==
    /\ req[p].pc = "idle"
    /\ nreq < MaxRequests
    /\ nreq' = nreq + 1
    /\ LET cache_key == cases_key(user_id)
           cached == get_value(cache, cache_key, now)
           r == [Idle EXCEPT !.handler = "read", !.user = user_id]
       IN  /\ cache' = get_cache(cache, cache_key, now)
           /\ IF cache_hit(cached)
              THEN req' = [req EXCEPT ![p] =
                        [r EXCEPT !.pc = "done", !.ret = cached, !.status = 200]]
              ELSE req' = [q \in Procs |->
                        IF q = p
                        THEN [r EXCEPT !.pc = "list_cases",
                                       !.overlap = \E o \in Procs : Reading(o, user_id),
                                       !.removed =
                                           IF get_cache(cache, cache_key, now) = cache
                                           THEN None
                                           ELSE dict_get(cache, cache_key)]
                        ELSE IF Reading(q, user_id)
                        THEN [req[q] EXCEPT !.overlap = TRUE]
                        ELSE req[q]]
    /\ UNCHANGED <<now, last, prev, source, done, thr, agg>>

(* The three analytics handlers: each awaits _get_cases_cached inside the  *)
(* same try/except and differs only in the aggregation of the result.      *)
get_analytics_summary(p, user_id) == StartRead(p, user_id)

get_risk_distribution(p, user_id) == StartRead(p, user_id)

get_signal_breakdown(p, user_id) == StartRead(p, user_id)

(* service.list_cases() reads the case source and returns.                 *)
ListCasesReturns(p) ==
    /\ req[p].pc = "list_cases"
    /\ req' = [req EXCEPT ![p].pc = "list_cases_returned",
                          ![p].cases = source[req[p].user],
                          ![p].calls = req[p].calls + 1]
    /\ UNCHANGED <<cache, now, last, prev, source, done, thr, agg, nreq>>

(* service.list_cases() raises; the handler's except clauses turn a        *)
(* DomainError into 400 and anything else into 500.                        *)
(* Mutant: every failure of the case source is answered 500.               *)
read_status_generic(exc) == 500

read_status(exc) == IF exc = "DomainError" THEN 400 ELSE 500

(* detail=str(e): the text of the exception that was raised.               *)
str(exc) == <<"str", exc>>

ListCasesRaises(p, exc) ==
    /\ req[p].pc = "list_cases"
    /\ req' = [req EXCEPT ![p].pc = "done",
                          ![p].calls = req[p].calls + 1,
                          ![p].status = read_status(exc),
                          ![p].exc = exc,
                          ![p].detail = str(exc)]
    /\ UNCHANGED <<cache, now, last, prev, source, done, thr, agg, nreq>>

(* _get_cases_cached after the await: normalise, store, return.            *)
ResumeRead(p) ==
    /\ req[p].pc = "list_cases_returned"
    /\ LET cache_key == cases_key(req[p].user)
           dicts == case_dicts(req[p].cases)
       IN  /\ cache' = set_cache(cache, cache_key, dicts, CACHE_TTL, now)
           /\ req' = [req EXCEPT ![p].pc = "done", ![p].ret = dicts,
                                 ![p].status = 200,
                                 ![p].expires_at = now + CACHE_TTL]
    /\ UNCHANGED <<now, last, prev, source, done, thr, agg, nreq>>

(* upload_case_document up to its await.                                   *)
StartUpload(p, user_id) ==
    /\ req[p].pc = "idle"
    /\ nreq < MaxRequests
    /\ nreq' = nreq + 1
    /\ req' = [req EXCEPT ![p] = [Idle EXCEPT !.pc = "create_case_from_upload",
                                             !.handler = "upload_case_document",
                                             !.user = user_id]]
    /\ UNCHANGED <<cache, now, last, prev, source, done, thr, agg>>

CreateCaseReturns(p) ==
    /\ req[p].pc = "create_case_from_upload"
    /\ source' = [source EXCEPT ![req[p].user] = create_case_from_upload(@)]
    /\ req' = [req EXCEPT ![p].pc = "create_case_returned",
                          ![p].case_id = Len(source[req[p].user]) + 1]
    /\ UNCHANGED <<cache, now, last, prev, done, thr, agg, nreq>>

upload_status(exc) == IF exc = "DomainError" THEN 400 ELSE 500

CreateCaseRaises(p, exc) ==
    /\ req[p].pc = "create_case_from_upload"
    /\ req' = [req EXCEPT ![p].pc = "done", ![p].status = upload_status(exc),
                          ![p].exc = exc, ![p].detail = str(exc)]
    /\ UNCHANGED <<cache, now, last, prev, source, done, thr, agg, nreq>>

(* upload_case_document after the await: invalidate, return.               *)
ResumeUpload(p) ==
    /\ req[p].pc = "create_case_returned"
    /\ cache' = invalidate_cache(cache, cases_key(req[p].user))
    /\ req' = [req EXCEPT ![p].pc = "done", ![p].status = 200]
    /\ done' = [done EXCEPT ![req[p].user] = @ \cup {<<"upload", req[p].case_id>>}]
    /\ UNCHANGED <<now, last, prev, source, thr, agg, nreq>>

(* analyze_case up to its await.                                           *)
StartAnalyze(p, user_id, case_id) ==
    /\ req[p].pc = "idle"
    /\ nreq < MaxRequests
    /\ nreq' = nreq + 1
    /\ req' = [req EXCEPT ![p] = [Idle EXCEPT !.pc = "queue_analysis",
                                             !.handler = "analyze_case",
                                             !.user = user_id,
                                             !.case_id = case_id]]
    /\ UNCHANGED <<cache, now, last, prev, source, done, thr, agg>>

HasCase(cases, case_id) == \E i \in 1..Len(cases) : cases[i].case_id = case_id

QueueAnalysisReturns(p) ==
    /\ req[p].pc = "queue_analysis"
    /\ HasCase(source[req[p].user], req[p].case_id)
    /\ source' = [source EXCEPT ![req[p].user] = queue_analysis(@, req[p].case_id)]
    /\ req' = [req EXCEPT ![p].pc = "queue_analysis_returned"]
    /\ UNCHANGED <<cache, now, last, prev, done, thr, agg, nreq>>

analyze_status(exc) ==
    IF exc = "CaseNotFound" THEN 404
    ELSE IF exc \in {"CaseMissingFile", "CaseExtractionFailed", "DomainError"} THEN 400
    ELSE 500

AnalyzeErrors == {"CaseNotFound", "CaseMissingFile", "DomainError", "Exception"}

QueueAnalysisRaises(p, exc) ==
    /\ req[p].pc = "queue_analysis"
    /\ (exc = "CaseNotFound") <=> ~HasCase(source[req[p].user], req[p].case_id)
    /\ req' = [req EXCEPT ![p].pc = "done", ![p].status = analyze_status(exc),
                          ![p].exc = exc, ![p].detail = str(exc)]
    /\ UNCHANGED <<cache, now, last, prev, source, done, thr, agg, nreq>>

(* analyze_case after the await: invalidate, return.                       *)
ResumeAnalyze(p) ==
    /\ req[p].pc = "queue_analysis_returned"
    /\ cache' = invalidate_cache(cache, cases_key(req[p].user))
    /\ req' = [req EXCEPT ![p].pc = "done", ![p].status = 200]
    /\ done' = [done EXCEPT ![req[p].user] = @ \cup {<<"analyze", req[p].case_id>>}]
    /\ UNCHANGED <<now, last, prev, source, thr, agg, nreq>>

(* The response has been sent; the slot serves the next request.           *)
Respond(p) ==
    /\ req[p].pc = "done"
    /\ req' = [req EXCEPT ![p] = Idle]
    /\ UNCHANGED <<cache, now, last, prev, source, done, thr, agg, nreq>>

(* The clock is observed at the instants that matter for a 30 second TTL.  *)
Instants == {0, 1, CACHE_TTL, MaxClock}

Advance(t) ==
    /\ t > now
    /\ now' = t
    /\ UNCHANGED <<cache, last, prev, source, req, done, thr, agg, nreq>>

Init ==
    /\ cache = EmptyDict
    /\ now = 0
    /\ last = NoOp
    /\ prev = [op |-> "init", key |-> << >>, entry |-> None]
    /\ source = [u \in Users |-> << >>]
    /\ req = [p \in Procs |-> Idle]
    /\ done = [u \in Users |-> {}]
    /\ thr = << >>
    /\ agg = << >>
    /\ nreq = 0

Next ==
    \/ \E p \in Procs, u \in Users : get_analytics_summary(p, u)
    \/ \E p \in Procs, u \in Users : get_risk_distribution(p, u)
    \/ \E p \in Procs, u \in Users : get_signal_breakdown(p, u)
    \/ \E p \in Procs : ListCasesReturns(p)
    \/ \E p \in Procs, exc \in {"DomainError", "Exception"} : ListCasesRaises(p, exc)
    \/ \E p \in Procs : ResumeRead(p)
    \/ \E p \in Procs, u \in Users : StartUpload(p, u)
    \/ \E p \in Procs : CreateCaseReturns(p)
    \/ \E p \in Procs, exc \in {"DomainError", "Exception"} : CreateCaseRaises(p, exc)
    \/ \E p \in Procs : ResumeUpload(p)
    \/ \E p \in Procs, u \in Users, c \in CaseIds : StartAnalyze(p, u, c)
    \/ \E p \in Procs : QueueAnalysisReturns(p)
    \/ \E p \in Procs, exc \in AnalyzeErrors : QueueAnalysisRaises(p, exc)
    \/ \E p \in Procs : ResumeAnalyze(p)
    \/ \E p \in Procs : Respond(p)
    \/ \E t \in Instants : Advance(t)

Spec == Init /\ [][Next]_vars

(* The clock does not stop: it reaches the last instant observed.          *)
SpecFair == Spec /\ WF_vars(\E t \in Instants : Advance(t))

TypeOK ==
    /\ DOMAIN cache \subseteq {cases_key(u) : u \in Users}
    /\ now \in 0..MaxClock
    /\ \A p \in Procs : req[p].status \in {0, 200, 400, 404, 500}
(***************************************************************************)
(* Properties of the request handlers (Spec)                               *)
(***************************************************************************)
ExpectedKey(user_id) == <<"c", "a", "s", "e", "s", ":">> \o user_id

ExpectedRecords(cases) ==
    [t |-> "list",
     items |-> [i \in 1..Len(cases) |->
        [case_id |-> cases[i].case_id, status |-> cases[i].status,
         risk_score |-> cases[i].risk_score, signals |-> cases[i].signals,
         created_at |-> cases[i].created_at]]]

Reflects(items, effect) ==
    \E i \in 1..Len(items) :
        /\ items[i].case_id = effect[2]
        /\ (effect[1] = "analyze") => items[i].status # "pending"

ReadHit(p) ==
    /\ req[p].pc = "idle"
    /\ req'[p].pc = "done"
    /\ req'[p].handler = "read"

ReadFetched(p) ==
    /\ req[p].pc = "list_cases"
    /\ req'[p].pc = "list_cases_returned"

ReadStored(p) ==
    /\ req[p].pc = "list_cases_returned"
    /\ req'[p].pc = "done"

(* C1: once a mutation for user u has committed and invalidated "cases:u", *)
(* every _get_cases_cached(u) that starts afterwards returns records that  *)
(* reflect the mutation: a list served from the cache contains its effect, *)
(* and so does a list fetched from the case source.                        *)
C1ReadStep ==
    \A p \in Procs :
        /\ ReadHit(p) =>
            \A effect \in done[req'[p].user] :
                Reflects(req'[p].ret.items, effect)
        /\ ReadFetched(p) =>
            \A effect \in done[req[p].user] :
                Reflects(ExpectedRecords(req'[p].cases).items, effect)
        /\ ReadStored(p) => req'[p].ret = ExpectedRecords(req[p].cases)

C1_ReadAfterInvalidateIsFresh == [][C1ReadStep]_vars

(* C2: _get_cases_cached(user_id) uses the key "cases:" + user_id; with an *)
(* unexpired entry under it (an empty list included) it returns the stored *)
(* list without calling the case source; otherwise it calls the case       *)
(* source exactly once, stores the normalised list under that key with     *)
(* expires_at = now + 30 and returns that list.                            *)
C2CachedStep ==
    \A p \in Procs :
        /\ (req[p].pc = "idle" /\ req'[p].handler = "read") =>
            LET key == ExpectedKey(req'[p].user)
            IN  IF Live(cache, key, now)
                THEN /\ req'[p].pc = "done"
                     /\ req'[p].status = 200
                     /\ req'[p].ret = cache[key].value
                     /\ req'[p].calls = 0
                     /\ cache' = cache
                ELSE /\ req'[p].pc = "list_cases"
                     /\ req'[p].calls = 0
                     /\ key \notin DOMAIN cache'
        /\ (req[p].pc = "list_cases") => req'[p].calls \in {0, 1}
        /\ ReadFetched(p) => req'[p].calls = 1
        /\ ReadStored(p) =>
            LET key == ExpectedKey(req[p].user)
            IN  /\ req'[p].calls = 1
                /\ req'[p].status = 200
                /\ req'[p].ret = ExpectedRecords(req[p].cases)
                /\ key \in DOMAIN cache'
                /\ cache'[key] = [value |-> req'[p].ret, expires_at |-> now + 30]
                /\ \A k \in (DOMAIN cache \cup DOMAIN cache') \ {key} :
                        dict_get(cache', k) = dict_get(cache, k)

C2_GetCasesCached == [][C2CachedStep]_vars

C2_Witness ==
    \E p \in Procs :
        /\ req[p].pc = "done"
        /\ req[p].handler = "read"
        /\ req[p].status = 200
        /\ req[p].calls = 0
        /\ req[p].ret = PyList(<< >>)

(* C8: when two _get_cases_cached calls for one user both miss and run     *)
(* concurrently, each returns the complete list of the cases it fetched,   *)
(* and the entry stored under "cases:<user>" is the list of one of the two *)
(* calls together with that same call's expires_at.                        *)
MissedRead(p) ==
    /\ req[p].pc = "done"
    /\ req[p].handler = "read"
    /\ req[p].status = 200
    /\ req[p].calls = 1

ConcurrentMisses(p, q) ==
    /\ p # q
    /\ MissedRead(p)
    /\ MissedRead(q)
    /\ req[p].user = req[q].user
    /\ req[p].overlap
    /\ req[q].overlap

C8_ConcurrentMissesStoreOneWrite ==
    \A p, q \in Procs :
        ConcurrentMisses(p, q) =>
            LET key == ExpectedKey(req[p].user)
            IN  /\ req[p].ret = ExpectedRecords(req[p].cases)
                /\ req[q].ret = ExpectedRecords(req[q].cases)
                /\ key \in DOMAIN cache
                /\ \/ cache[key] = [value |-> req[p].ret,
                                    expires_at |-> req[p].expires_at]
                   \/ cache[key] = [value |-> req[q].ret,
                                    expires_at |-> req[q].expires_at]

C8_Witness ==
    \E p, q \in Procs :
        /\ ConcurrentMisses(p, q)
        /\ req[p].ret # req[q].ret
        /\ req[p].expires_at < req[q].expires_at
        /\ cache[ExpectedKey(req[p].user)].value = req[q].ret
(***************************************************************************)
(* SpecThreads: threads calling the methods of one SimpleCache.  A step is *)
(* one dictionary operation or one reading of the clock; a thread can be   *)
(* preempted between any two steps.  SimpleCache takes no lock.            *)
(***************************************************************************)
Threads == {1, 2}

ThreadKeys == {cases_key(UserA), OtherKey}

ThreadPrefixes == {CASES_PREFIX, << >>}

ThreadTTLs == {1}

ThreadIdle ==
    [pc |-> "idle", op |-> "", key |-> << >>, value |-> None, ttl |-> 0,
     entry |-> None, expires_at |-> 0, size |-> 0, visited |-> {},
     todo |-> << >>, ret |-> None, raised |-> ""]

Call(t, op, key, value, ttl) ==
    /\ thr[t].pc \in {"idle", "returned"}
    /\ nreq < MaxCalls
    /\ nreq' = nreq + 1
    /\ thr' = [thr EXCEPT ![t] = [ThreadIdle EXCEPT !.pc = op, !.op = op, !.key = key,
                                                    !.value = value, !.ttl = ttl]]
    /\ UNCHANGED <<cache, now, last, prev, source, req, done, agg>>

ThreadStep(t, r, c) ==
    /\ thr' = [thr EXCEPT ![t] = r]
    /\ cache' = c
    /\ UNCHANGED <<now, last, prev, source, req, done, agg, nreq>>

(* A call that is over keeps its name, its key and its outcome.            *)
Returned(r, ret) ==
    [ThreadIdle EXCEPT !.pc = "returned", !.op = r.op, !.key = r.key, !.ret = ret]

Raised(r, exc) ==
    [ThreadIdle EXCEPT !.pc = "returned", !.op = r.op, !.key = r.key, !.raised = exc]

(* get, line 26-28: entry = self._cache.get(key); return None when absent. *)
get_lookup(t) ==
    /\ thr[t].pc = "get"
    /\ LET entry == dict_get(cache, thr[t].key)
       IN  IF entry = None
           THEN ThreadStep(t, Returned(thr[t], None), cache)
           ELSE ThreadStep(t, [thr[t] EXCEPT !.pc = "get_check", !.entry = entry], cache)

(* get, line 29 and 32: compare the clock with the entry that was read.    *)
get_check(t) ==
    /\ thr[t].pc = "get_check"
    /\ IF get_expired(thr[t].entry, now)
       THEN ThreadStep(t, [thr[t] EXCEPT !.pc = "get_del"], cache)
       ELSE ThreadStep(t, Returned(thr[t], thr[t].entry.value), cache)

(* get, line 30-31: del self._cache[key]; return None.                     *)
get_del(t) ==
    /\ thr[t].pc = "get_del"
    /\ IF dict_delitem_raises(cache, thr[t].key)
       THEN ThreadStep(t, Raised(thr[t], "KeyError"), cache)
       ELSE ThreadStep(t, Returned(thr[t], None), dict_delitem(cache, thr[t].key))

(* set, line 36-39: the entry is built from the clock ...                  *)
set_entry(t) ==
    /\ thr[t].pc = "set"
    /\ ThreadStep(t, [thr[t] EXCEPT !.pc = "set_store",
                                    !.expires_at = now + thr[t].ttl], cache)

(* ... and stored by one dictionary assignment.                            *)
set_store(t) ==
    /\ thr[t].pc = "set_store"
    /\ ThreadStep(t, Returned(thr[t], None),
                  dict_setitem(cache, thr[t].key,
                               CacheEntry(thr[t].value, thr[t].expires_at)))

(* invalidate, line 43: one pop with a default.                            *)
invalidate_pop(t) ==
    /\ thr[t].pc = "invalidate"
    /\ ThreadStep(t, Returned(thr[t], None), dict_pop(cache, thr[t].key, None).dict)

(* invalidate_prefix, line 47: the comprehension starts iterating the      *)
(* dictionary's keys.                                                      *)
prefix_iter(t) ==
    /\ thr[t].pc = "invalidate_prefix"
    /\ ThreadStep(t, [thr[t] EXCEPT !.pc = "prefix_next",
                                    !.size = Cardinality(DOMAIN cache)], cache)

(* One round of the comprehension: the iterator raises RuntimeError when   *)
(* the dictionary changed size since the iteration began, else yields the  *)
(* next key, which is kept when it starts with the prefix.                 *)
prefix_next(t) ==
    /\ thr[t].pc = "prefix_next"
    /\ IF Cardinality(DOMAIN cache) # thr[t].size
       THEN ThreadStep(t, Raised(thr[t], "RuntimeError"), cache)
       ELSE IF DOMAIN cache \subseteq thr[t].visited
       THEN ThreadStep(t, [thr[t] EXCEPT !.pc = "prefix_del"], cache)
       ELSE \E k \in DOMAIN cache \ thr[t].visited :
                ThreadStep(t, [thr[t] EXCEPT
                                !.visited = @ \cup {k},
                                !.todo = IF startswith(k, thr[t].key)
                                         THEN Append(@, k) ELSE @], cache)

(* invalidate_prefix, line 48-49: del self._cache[key] for each kept key.  *)
prefix_del(t) ==
    /\ thr[t].pc = "prefix_del"
    /\ IF thr[t].todo = << >>
       THEN ThreadStep(t, Returned(thr[t], None), cache)
       ELSE LET key == Head(thr[t].todo)
            IN  IF dict_delitem_raises(cache, key)
                THEN ThreadStep(t, Raised(thr[t], "KeyError"), cache)
                ELSE ThreadStep(t, [thr[t] EXCEPT !.todo = Tail(@)],
                                dict_delitem(cache, key))

(* clear, line 53: one dictionary operation.                               *)
clear_dict(t) ==
    /\ thr[t].pc = "clear"
    /\ ThreadStep(t, Returned(thr[t], None), clear_cache(cache))

ClockTick ==
    /\ now < MaxTime
    /\ now' = now + 1
    /\ UNCHANGED <<cache, last, prev, source, req, done, thr, agg, nreq>>

InitThreads ==
    /\ cache = EmptyDict
    /\ now = 0
    /\ last = NoOp
    /\ prev = [op |-> "init", key |-> << >>, entry |-> None]
    /\ source = << >>
    /\ req = << >>
    /\ done = << >>
    /\ thr = [t \in Threads |-> ThreadIdle]
    /\ agg = << >>
    /\ nreq = 0

NextThreads ==
    \/ \E t \in Threads, key \in ThreadKeys : Call(t, "get", key, None, 0)
    \/ \E t \in Threads, key \in ThreadKeys, value \in Values, ttl \in ThreadTTLs :
            Call(t, "set", key, value, ttl)
    \/ \E t \in Threads, key \in ThreadKeys : Call(t, "invalidate", key, None, 0)
    \/ \E t \in Threads, prefix \in ThreadPrefixes :
            Call(t, "invalidate_prefix", prefix, None, 0)
    \/ \E t \in Threads : Call(t, "clear", << >>, None, 0)
    \/ \E t \in Threads : get_lookup(t)
    \/ \E t \in Threads : get_check(t)
    \/ \E t \in Threads : get_del(t)
    \/ \E t \in Threads : set_entry(t)
    \/ \E t \in Threads : set_store(t)
    \/ \E t \in Threads : invalidate_pop(t)
    \/ \E t \in Threads : prefix_iter(t)
    \/ \E t \in Threads : prefix_next(t)
    \/ \E t \in Threads : prefix_del(t)
    \/ \E t \in Threads : clear_dict(t)
    \/ ClockTick

SpecThreads == InitThreads /\ [][NextThreads]_vars

(* C9: with several threads running get, set, invalidate,                  *)
(* invalidate_prefix and clear on one SimpleCache, no call ever raises.    *)
C9_NoOperationRaises == \A t \in Threads : thr[t].raised = ""
(***************************************************************************)
(* SpecAgg: the aggregation of get_risk_distribution over a list of case   *)
(* dicts as _get_cases_cached returns it, one loop iteration per step.     *)
(***************************************************************************)
PyInt(n) == [t |-> "int", v |-> n]

ScoreSamples == {0, 24, 25, 49, 50, 74, 75, 100}

Statuses == {"analyzed", "pending"}

RiskScores == {None} \cup {PyInt(n) : n \in ScoreSamples}

CaseDicts ==
    [case_id : {1}, status : Statuses, risk_score : RiskScores,
     signals : {None}, created_at : {0}]

CaseLists == UNION {[1..n -> CaseDicts] : n \in 0..MaxRecords}

(* Mutant: the boundary 75 falls into "high".                              *)
risk_bucket_gt(score) ==
    IF score > 75 THEN "critical"
    ELSE IF score >= 50 THEN "high"
    ELSE IF score >= 25 THEN "medium"
    ELSE "low"

(* Lines 91-98: the if/elif chain.                                         *)
risk_bucket(score) ==
    IF score >= 75 THEN "critical"
    ELSE IF score >= 50 THEN "high"
    ELSE IF score >= 25 THEN "medium"
    ELSE "low"

(* Mutant: the status of the case is not looked at.                        *)
risk_counted_any_status(case) == case.risk_score # None

(* Line 89: which cases are counted.                                       *)
risk_counted(case) == case.status = "analyzed" /\ case.risk_score # None

RECURSIVE seq_sum(_)
seq_sum(xs) == IF xs = << >> THEN 0 ELSE Head(xs) + seq_sum(Tail(xs))

seq_min(xs) == CHOOSE x \in {xs[i] : i \in 1..Len(xs)} : \A j \in 1..Len(xs) : x <= xs[j]

seq_max(xs) == CHOOSE x \in {xs[i] : i \in 1..Len(xs)} : \A j \in 1..Len(xs) : x >= xs[j]

(* round(num / den, 1) in tenths: the nearest tenth, a tie going to the    *)
(* even tenth (the quotients that tie at one decimal, x.25 and x.75, are   *)
(* exact in binary floating point).                                        *)
round1_tenths(num, den) ==
    LET q == (10 * num) \div den
        r == (10 * num) % den
    IN  IF 2 * r < den THEN q
        ELSE IF 2 * r > den THEN q + 1
        ELSE IF q % 2 = 0 THEN q ELSE q + 1

AggStart(cases) ==
    [pc |-> "risk_loop", cases |-> cases, i |-> 0,
     distribution |-> [low |-> 0, medium |-> 0, high |-> 0, critical |-> 0],
     scores |-> << >>, result |-> None]

(* Lines 88-98: one iteration of the loop over the cases.                  *)
RiskLoop ==
    /\ agg.pc = "risk_loop"
    /\ agg.i < Len(agg.cases)
    /\ LET case == agg.cases[agg.i + 1]
       IN  IF risk_counted(case)
           THEN agg' = [agg EXCEPT
                    !.i = @ + 1,
                    !.scores = Append(@, case.risk_score.v),
                    !.distribution[risk_bucket(case.risk_score.v)] = @ + 1]
           ELSE agg' = [agg EXCEPT !.i = @ + 1]
    /\ UNCHANGED <<cache, now, last, prev, source, req, done, thr, nreq>>

(* Lines 100-106: the returned dict; average_score is kept in tenths.      *)
RiskReturn ==
    /\ agg.pc = "risk_loop"
    /\ agg.i = Len(agg.cases)
    /\ LET scores == agg.scores
       IN  agg' = [agg EXCEPT
                !.pc = "risk_done",
                !.result = [distribution |-> agg.distribution,
                            total_analyzed |-> Len(scores),
                            average_score_tenths |->
                                IF scores # << >>
                                THEN round1_tenths(seq_sum(scores), Len(scores))
                                ELSE 0,
                            min_score |-> IF scores # << >> THEN seq_min(scores) ELSE 0,
                            max_score |-> IF scores # << >> THEN seq_max(scores) ELSE 0]]
    /\ UNCHANGED <<cache, now, last, prev, source, req, done, thr, nreq>>

(***************************************************************************)
(* get_signal_breakdown, lines 124-171.  A dict is a sequence of items in  *)
(* insertion order, a str and an int are tagged like None and list.        *)
(***************************************************************************)
PyStr(text) == [t |-> "str", s |-> text]

PyDict(items) == [t |-> "dict", items |-> items]

Item(k, v) == [k |-> k, v |-> v]

(* bool(x) as "not x" and "if x" apply it.                                 *)
py_truthy(x) ==
    CASE x.t = "None" -> FALSE
      [] x.t = "dict" -> x.items # << >>
      [] x.t = "list" -> x.items # << >>
      [] x.t = "str" -> x.s # ""
      [] x.t = "int" -> x.v # 0

(* d.get(key, default) on a dict.                                          *)
py_get(d, key, default) ==
    LET idx == {i \in 1..Len(d.items) : d.items[i].k = key}
    IN  IF idx = {} THEN default ELSE d.items[CHOOSE i \in idx : TRUE].v

isinstance_dict(x) == x.t = "dict"

(* Only a number can be compared with 0; anything else raises TypeError.   *)
is_number(x) == x.t = "int"

SAMPLE_CAP == 10

Scored(n) == PyDict(<<Item("score", PyInt(n))>>)

Breakdown(items) == PyDict(<<Item("detector_breakdown", PyDict(items))>>)

WellFormedSignals ==
    {None,
     Breakdown(<<Item("d1", Scored(5))>>),
     Breakdown(<<Item("d1", Scored(0))>>),
     Breakdown(<<Item("d2", Scored(7)), Item("d1", Scored(3))>>),
     Breakdown(<<Item("d2", Scored(7))>>),
     PyDict(<< >>),
     PyDict(<<Item("summary", PyStr("ok"))>>)}

MalformedSignals ==
    {Breakdown(<<Item("d1", PyInt(3))>>),
     Breakdown(<<Item("d1", PyDict(<<Item("weight", PyInt(1))>>))>>),
     Breakdown(<<Item("d1", PyDict(<<Item("score", None)>>))>>),
     Breakdown(<<Item("d1", PyDict(<<Item("score", PyStr("high"))>>))>>),
     PyStr("n/a"),
     PyDict(<<Item("detector_breakdown", None)>>)}

SignalKinds ==
    [status : Statuses, signals : WellFormedSignals \cup MalformedSignals]

LongKinds ==
    [status : {"analyzed"},
     signals : {Breakdown(<<Item("d1", Scored(5))>>),
                Breakdown(<<Item("d1", Scored(0))>>)}]

(* The case dicts of a list of kinds: the case ids are the positions.      *)
SignalCases(kinds) ==
    [i \in 1..Len(kinds) |->
        [case_id |-> i, status |-> kinds[i].status, risk_score |-> None,
         signals |-> kinds[i].signals, created_at |-> 0]]

SignalCaseLists ==
    {SignalCases(kinds) : kinds \in UNION {[1..n -> SignalKinds] : n \in 0..MaxRecords}}
    \cup
    {SignalCases(kinds) : kinds \in UNION {[1..n -> LongKinds] : n \in SAMPLE_CAP..MaxLongList}}

StatsIndex(stats, name) == {i \in 1..Len(stats) : stats[i].name = name}

(* Lines 139-145.                                                          *)
NewStats(name) ==
    [name |-> name, triggered_count |-> 0, total_score |-> 0, max_score |-> 0,
     case_ids |-> << >>]

py_max(a, b) == IF a >= b THEN a ELSE b

(* Mutant: a full sample list drops its oldest id for the new one.         *)
append_capped_rolling(case_ids, case_id) ==
    IF Len(case_ids) < SAMPLE_CAP
    THEN Append(case_ids, case_id)
    ELSE Append(Tail(case_ids), case_id)

(* Lines 152-153.                                                          *)
append_capped(case_ids, case_id) ==
    IF Len(case_ids) < SAMPLE_CAP THEN Append(case_ids, case_id) ELSE case_ids

(* Mutant: a score of 0 triggers too.                                      *)
is_triggered_ge(score) == score >= 0

(* Line 147.                                                               *)
is_triggered(score) == score > 0

(* Lines 148-153.                                                          *)
Triggered(st, score, case_id) ==
    [st EXCEPT !.triggered_count = @ + 1,
               !.total_score = @ + score,
               !.max_score = py_max(@, score),
               !.case_ids = append_capped(@, case_id)]

(* Lines 133-153 for one item of detector_breakdown.                       *)
detector_entry(stats, name, data, case_id) ==
    IF ~isinstance_dict(data)
    THEN [stats |-> stats, exc |-> ""]
    ELSE LET score == py_get(data, "score", PyInt(0))
             stats1 == IF StatsIndex(stats, name) = {}
                       THEN Append(stats, NewStats(name))
                       ELSE stats
             k == CHOOSE i \in StatsIndex(stats1, name) : TRUE
         IN  IF ~is_number(score)
             THEN [stats |-> stats1, exc |-> "TypeError"]
             ELSE IF is_triggered(score.v)
             THEN [stats |-> [stats1 EXCEPT ![k] = Triggered(@, score.v, case_id)],
                   exc |-> ""]
             ELSE [stats |-> stats1, exc |-> ""]

(* Line 132: the loop over detector_breakdown.items().                     *)
RECURSIVE detector_loop(_, _, _)
detector_loop(stats, items, case_id) ==
    IF items = << >>
    THEN [stats |-> stats, exc |-> ""]
    ELSE LET r == detector_entry(stats, Head(items).k, Head(items).v, case_id)
         IN  IF r.exc # "" THEN r ELSE detector_loop(r.stats, Tail(items), case_id)

(* Lines 127-153 for one case.                                             *)
signal_case(stats, case) ==
    IF case.status # "analyzed" \/ ~py_truthy(case.signals)
    THEN [stats |-> stats, exc |-> ""]
    ELSE IF ~isinstance_dict(case.signals)
    THEN [stats |-> stats, exc |-> "AttributeError"]
    ELSE LET detector_breakdown ==
                py_get(case.signals, "detector_breakdown", PyDict(<< >>))
         IN  IF ~isinstance_dict(detector_breakdown)
             THEN [stats |-> stats, exc |-> "AttributeError"]
             ELSE detector_loop(stats, detector_breakdown.items, case.case_id)

(* Lines 156-163: avg_score (in tenths) replaces total_score.              *)
with_average(st) ==
    [name |-> st.name, triggered_count |-> st.triggered_count,
     max_score |-> st.max_score, case_ids |-> st.case_ids,
     avg_score_tenths |-> IF st.triggered_count > 0
                          THEN round1_tenths(st.total_score, st.triggered_count)
                          ELSE 0]

(* Mutant: detectors with equal counts come out in reverse order.          *)
sort_rank_reversed(xs, i) ==
    Cardinality({j \in 1..Len(xs) : xs[j].triggered_count > xs[i].triggered_count})
    + Cardinality({j \in 1..Len(xs) :
                    j > i /\ xs[j].triggered_count = xs[i].triggered_count})
    + 1

(* Lines 166-170: sorted(..., key=triggered_count, reverse=True) is         *)
(* stable; the place of element i in the result.                           *)
sort_rank(xs, i) ==
    Cardinality({j \in 1..Len(xs) : xs[j].triggered_count > xs[i].triggered_count})
    + Cardinality({j \in 1..Len(xs) :
                    j < i /\ xs[j].triggered_count = xs[i].triggered_count})
    + 1

sorted_by_triggered_count(xs) ==
    [r \in 1..Len(xs) |-> xs[CHOOSE i \in 1..Len(xs) : sort_rank(xs, i) = r]]

SignalStart(cases) ==
    [pc |-> "signal_loop", cases |-> cases, i |-> 0, signal_stats |-> << >>,
     result |-> None, status |-> 0]

(* Lines 126-153: one iteration of the loop over the cases; an exception   *)
(* leaves the loop for the handler of line 174, which answers 500.         *)
SignalLoop ==
    /\ agg.pc = "signal_loop"
    /\ agg.i < Len(agg.cases)
    /\ LET r == signal_case(agg.signal_stats, agg.cases[agg.i + 1])
       IN  IF r.exc = ""
           THEN agg' = [agg EXCEPT !.i = @ + 1, !.signal_stats = r.stats]
           ELSE agg' = [agg EXCEPT !.pc = "signal_failed", !.i = @ + 1,
                                   !.signal_stats = r.stats,
                                   !.status = read_status(r.exc)]
    /\ UNCHANGED <<cache, now, last, prev, source, req, done, thr, nreq>>

(* Lines 155-171: averages, sort, return.                                  *)
SignalReturn ==
    /\ agg.pc = "signal_loop"
    /\ agg.i = Len(agg.cases)
    /\ agg' = [agg EXCEPT
            !.pc = "signal_done",
            !.status = 200,
            !.result = sorted_by_triggered_count(
                [k \in 1..Len(agg.signal_stats) |->
                    with_average(agg.signal_stats[k])])]
    /\ UNCHANGED <<cache, now, last, prev, source, req, done, thr, nreq>>

InitAgg ==
    /\ cache = EmptyDict
    /\ now = 0
    /\ last = NoOp
    /\ prev = [op |-> "init", key |-> << >>, entry |-> None]
    /\ source = << >>
    /\ req = << >>
    /\ done = << >>
    /\ thr = << >>
    /\ nreq = 0
    /\ \/ \E cases \in CaseLists : agg = AggStart(cases)
       \/ \E cases \in SignalCaseLists : agg = SignalStart(cases)

NextAgg ==
    \/ RiskLoop
    \/ RiskReturn
    \/ SignalLoop
    \/ SignalReturn

SpecAgg == InitAgg /\ [][NextAgg]_vars

(* C10: in get_risk_distribution every record with status "analyzed" and a *)
(* risk_score in [0,100] increments exactly one bucket, and that by one:   *)
(* [0,25) low, [25,50) medium, [50,75) high, [75,100] critical.            *)
ExpectedBucket(score) ==
    CHOOSE b \in {"low", "medium", "high", "critical"} :
        \/ b = "low" /\ 0 <= score /\ score < 25
        \/ b = "medium" /\ 25 <= score /\ score < 50
        \/ b = "high" /\ 50 <= score /\ score < 75
        \/ b = "critical" /\ 75 <= score /\ score <= 100

C10LoopStep ==
    (agg.pc = "risk_loop" /\ agg'.i = agg.i + 1) =>
        LET case == agg.cases[agg'.i]
        IN  (case.status = "analyzed" /\ case.risk_score # None
                /\ case.risk_score.v \in 0..100) =>
            \A b \in {"low", "medium", "high", "critical"} :
                agg'.distribution[b] =
                    IF b = ExpectedBucket(case.risk_score.v)
                    THEN agg.distribution[b] + 1
                    ELSE agg.distribution[b]

C10_ExactlyOneBucket == [][C10LoopStep]_vars

C10_Witness ==
    /\ agg.pc = "risk_loop"
    /\ agg.i = 2
    /\ agg.cases[1].status = "analyzed"
    /\ agg.cases[1].risk_score = PyInt(75)
    /\ agg.cases[2].status = "analyzed"
    /\ agg.cases[2].risk_score = PyInt(25)
    /\ agg.distribution = [low |-> 0, medium |-> 1, high |-> 0, critical |-> 1]
(* C11: get_risk_distribution counts only the records whose status is      *)
(* "analyzed" and whose risk_score is present: total_analyzed is their     *)
(* number and equals low + medium + high + critical; min_score and         *)
(* max_score are the least and greatest of their scores, average_score is  *)
(* their sum over their count rounded to one decimal, and all three are 0  *)
(* when there is no such record.  Records of another status change none of *)
(* these outputs.                                                          *)
ScoredIndexes(cases) ==
    {i \in 1..Len(cases) :
        cases[i].status = "analyzed" /\ cases[i].risk_score # None}

RECURSIVE SumOver(_, _)
SumOver(cases, idx) ==
    IF idx = {} THEN 0
    ELSE LET i == CHOOSE j \in idx : TRUE
         IN  cases[i].risk_score.v + SumOver(cases, idx \ {i})

Distance(a, b) == IF a >= b THEN a - b ELSE b - a

C11_RiskStatistics ==
    (agg.pc = "risk_done") =>
        LET idx == ScoredIndexes(agg.cases)
            n == Cardinality(idx)
            r == agg.result
            d == r.distribution
        IN  /\ r.total_analyzed = n
            /\ d.low + d.medium + d.high + d.critical = n
            /\ IF n = 0
               THEN /\ r.min_score = 0
                    /\ r.max_score = 0
                    /\ r.average_score_tenths = 0
               ELSE /\ \E i \in idx : r.min_score = agg.cases[i].risk_score.v
                    /\ \A i \in idx : r.min_score <= agg.cases[i].risk_score.v
                    /\ \E i \in idx : r.max_score = agg.cases[i].risk_score.v
                    /\ \A i \in idx : r.max_score >= agg.cases[i].risk_score.v
                    /\ 2 * Distance(r.average_score_tenths * n,
                                    10 * SumOver(agg.cases, idx)) <= n

C11_Witness ==
    /\ agg.pc = "risk_done"
    /\ Len(agg.cases) = 2
    /\ agg.cases[1].status = "analyzed"
    /\ agg.cases[1].risk_score = PyInt(24)
    /\ agg.cases[2].status = "pending"
    /\ agg.cases[2].risk_score = PyInt(100)
    /\ agg.result.total_analyzed = 1
    /\ agg.result.max_score = 24
    /\ agg.result.average_score_tenths = 240
(***************************************************************************)
(* What the detectors of the input say, read off the input itself.         *)
(***************************************************************************)
BreakdownItems(case) ==
    IF case.status = "analyzed" /\ case.signals.t = "dict"
    THEN LET at == {j \in 1..Len(case.signals.items) :
                        case.signals.items[j].k = "detector_breakdown"}
         IN  IF at = {} THEN << >>
             ELSE LET db == case.signals.items[CHOOSE j \in at : TRUE].v
                  IN  IF db.t = "dict" THEN db.items ELSE << >>
    ELSE << >>

(* The positive score record i holds for detector name, 0 if none.         *)
PositiveScore(case, name) ==
    LET items == BreakdownItems(case)
        hits == {j \in 1..Len(items) :
                    /\ items[j].k = name
                    /\ items[j].v.t = "dict"
                    /\ \E m \in 1..Len(items[j].v.items) :
                          /\ items[j].v.items[m].k = "score"
                          /\ items[j].v.items[m].v.t = "int"
                          /\ items[j].v.items[m].v.v > 0}
    IN  IF hits = {} THEN 0
        ELSE LET d == items[CHOOSE j \in hits : TRUE].v
             IN  d.items[CHOOSE m \in 1..Len(d.items) : d.items[m].k = "score"].v.v

TriggeringIndexes(cases, name) ==
    {i \in 1..Len(cases) : PositiveScore(cases[i], name) > 0}

RECURSIVE PositiveSum(_, _, _)
PositiveSum(cases, name, idx) ==
    IF idx = {} THEN 0
    ELSE LET i == CHOOSE j \in idx : TRUE
         IN  PositiveScore(cases[i], name) + PositiveSum(cases, name, idx \ {i})

DetectorNames == {"d1", "d2"}

(* C12: in the answer of get_signal_breakdown every detector's             *)
(* triggered_count is the number of analyzed records whose entry for it    *)
(* has a score above 0, max_score is the largest and avg_score the mean    *)
(* (to the nearest tenth) of exactly those scores, avg_score is 0 when the *)
(* count is 0, and every sample case id is one of those records; entries   *)
(* with score 0 and entries of records that are not analyzed count for     *)
(* nothing.  A detector with a triggering record is in the answer.         *)
C12_SignalStatistics ==
    (agg.pc = "signal_done") =>
        /\ \A k \in 1..Len(agg.result) :
              LET r == agg.result[k]
                  idx == TriggeringIndexes(agg.cases, r.name)
                  n == Cardinality(idx)
              IN  /\ r.triggered_count = n
                  /\ \A i \in idx : PositiveScore(agg.cases[i], r.name) <= r.max_score
                  /\ IF n = 0
                     THEN r.max_score = 0 /\ r.avg_score_tenths = 0
                     ELSE /\ \E i \in idx :
                                PositiveScore(agg.cases[i], r.name) = r.max_score
                          /\ 2 * Distance(r.avg_score_tenths * n,
                                          10 * PositiveSum(agg.cases, r.name, idx)) <= n
                  /\ \A m \in 1..Len(r.case_ids) : r.case_ids[m] \in idx
        /\ \A name \in DetectorNames :
              TriggeringIndexes(agg.cases, name) # {} =>
                  \E k \in 1..Len(agg.result) : agg.result[k].name = name

C12_Witness ==
    /\ agg.pc = "signal_done"
    /\ Len(agg.cases) = 2
    /\ agg.cases[1].status = "analyzed"
    /\ agg.cases[1].signals = Breakdown(<<Item("d2", Scored(7)), Item("d1", Scored(3))>>)
    /\ agg.cases[2].status = "analyzed"
    /\ agg.cases[2].signals = Breakdown(<<Item("d1", Scored(5))>>)
    /\ agg.result[1].name = "d1"
    /\ agg.result[1].triggered_count = 2
    /\ agg.result[1].max_score = 5
    /\ agg.result[1].avg_score_tenths = 40

(* A record whose entry has score 0 among nine triggering records.         *)
C12_ZeroScoreReached ==
    /\ agg.pc = "signal_done"
    /\ Len(agg.cases) = 10
    /\ agg.cases[1].signals = Breakdown(<<Item("d1", Scored(0))>>)
    /\ agg.result[1].triggered_count = 9

Min2(a, b) == IF a <= b THEN a ELSE b

(* The k smallest members of idx, ascending.                               *)
FirstOf(idx, k) ==
    [m \in 1..k |-> CHOOSE i \in idx : Cardinality({j \in idx : j < i}) = m - 1]

Processed == SubSeq(agg.cases, 1, agg.i)

(* C13: at every point of the loop and in the answer, a detector's sample  *)
(* case ids are the ids of the first min(triggered_count, 10) triggering   *)
(* records in input order: once ten are held, a further triggering record  *)
(* raises triggered_count and leaves the list as it is.                    *)
C13_SampleCaseIds ==
    /\ (agg.pc = "signal_loop") =>
          \A k \in 1..Len(agg.signal_stats) :
              LET st == agg.signal_stats[k]
                  idx == TriggeringIndexes(Processed, st.name)
              IN  /\ st.triggered_count = Cardinality(idx)
                  /\ st.case_ids = FirstOf(idx, Min2(Cardinality(idx), 10))
    /\ (agg.pc = "signal_done") =>
          \A k \in 1..Len(agg.result) :
              LET r == agg.result[k]
                  idx == TriggeringIndexes(agg.cases, r.name)
              IN  /\ Len(r.case_ids) = Min2(r.triggered_count, 10)
                  /\ r.case_ids = FirstOf(idx, Min2(Cardinality(idx), 10))

C13_FirstTenInOrder ==
    /\ agg.pc = "signal_done"
    /\ Len(agg.cases) = 11
    /\ agg.cases[1].signals = Breakdown(<<Item("d1", Scored(0))>>)
    /\ agg.cases[2].signals = Breakdown(<<Item("d1", Scored(5))>>)
    /\ agg.result[1].triggered_count = 10
    /\ agg.result[1].case_ids = <<2, 3, 4, 5, 6, 7, 8, 9, 10, 11>>

(* C13 witness: eleven triggering records, the eleventh is counted and    *)
(* not sampled.                                                            *)
C13_Witness ==
    /\ agg.pc = "signal_done"
    /\ agg.result # << >>
    /\ agg.result[1].triggered_count = 11
    /\ agg.result[1].case_ids = <<1, 2, 3, 4, 5, 6, 7, 8, 9, 10>>

(* The places <<record, item>> at which line 138 meets detector name: the  *)
(* mapping-valued items of the analyzed records, in iteration order.       *)
Encounters(cases, name) ==
    {<<i, j>> \in (1..Len(cases)) \X (1..2) :
        /\ j <= Len(BreakdownItems(cases[i]))
        /\ BreakdownItems(cases[i])[j].k = name
        /\ BreakdownItems(cases[i])[j].v.t = "dict"}

Before(p, q) == p[1] < q[1] \/ (p[1] = q[1] /\ p[2] < q[2])

FirstEncounter(cases, name) ==
    CHOOSE p \in Encounters(cases, name) :
        \A q \in Encounters(cases, name) : q = p \/ Before(p, q)

(* C14: the answer of get_signal_breakdown is ordered by triggered_count   *)
(* descending, and of two detectors with equal triggered_count the one     *)
(* whose name the loop met first comes first; every detector is listed     *)
(* once.                                                                   *)
C14_SortedStable ==
    (agg.pc = "signal_done") =>
        \A a, b \in 1..Len(agg.result) :
            a < b =>
                /\ agg.result[a].name # agg.result[b].name
                /\ agg.result[a].triggered_count >= agg.result[b].triggered_count
                /\ agg.result[a].triggered_count = agg.result[b].triggered_count =>
                      Before(FirstEncounter(agg.cases, agg.result[a].name),
                             FirstEncounter(agg.cases, agg.result[b].name))

C14_Witness ==
    /\ agg.pc = "signal_done"
    /\ Len(agg.cases) = 1
    /\ agg.cases[1].signals = Breakdown(<<Item("d2", Scored(7)), Item("d1", Scored(3))>>)
    /\ Len(agg.result) = 2
    /\ agg.result[1].name = "d2"
    /\ agg.result[2].name = "d1"
    /\ agg.result[1].triggered_count = agg.result[2].triggered_count

(* The count outranks the order of encounter.                              *)
C14_CountOutranksEncounter ==
    /\ agg.pc = "signal_done"
    /\ Len(agg.result) = 2
    /\ agg.result[1].name = "d1"
    /\ agg.result[1].triggered_count = 2
    /\ agg.result[2].name = "d2"
    /\ agg.result[2].triggered_count = 1
    /\ Before(FirstEncounter(agg.cases, "d2"), FirstEncounter(agg.cases, "d1"))

(***************************************************************************)
(* The input without its malformed parts.                                  *)
(***************************************************************************)
RECURSIVE SelectItems(_, _)
SelectItems(items, keep) ==
    IF items = << >> THEN << >>
    ELSE IF keep[1]
    THEN <<Head(items)>> \o SelectItems(Tail(items), Tail(keep))
    ELSE SelectItems(Tail(items), Tail(keep))

(* A detector entry is well formed when it is a mapping with a number      *)
(* under "score".                                                          *)
WellFormedEntry(item) ==
    /\ item.v.t = "dict"
    /\ \E m \in 1..Len(item.v.items) :
          item.v.items[m].k = "score" /\ item.v.items[m].v.t = "int"

(* A record is well formed when signals is empty or a mapping whose        *)
(* detector_breakdown, if any, is a mapping.                               *)
WellFormedRecord(case) ==
    \/ case.signals = None
    \/ /\ case.signals.t = "dict"
       /\ \A j \in 1..Len(case.signals.items) :
             case.signals.items[j].k = "detector_breakdown" =>
                 case.signals.items[j].v.t = "dict"

WithoutMalformedEntries(case) ==
    IF case.signals = None THEN case
    ELSE [case EXCEPT !.signals.items =
            [j \in 1..Len(@) |->
                IF @[j].k = "detector_breakdown"
                THEN Item(@[j].k,
                          PyDict(SelectItems(@[j].v.items,
                                    [m \in 1..Len(@[j].v.items) |->
                                        WellFormedEntry(@[j].v.items[m])])))
                ELSE @[j]]]

WithoutMalformed(cases) ==
    LET kept == SelectItems(cases, [i \in 1..Len(cases) |-> WellFormedRecord(cases[i])])
    IN  [i \in 1..Len(kept) |-> WithoutMalformedEntries(kept[i])]

(* Lines 124-171 on an input as one value: the answer, or None when an     *)
(* exception leaves the loop.                                              *)
RECURSIVE signal_loop(_, _)
signal_loop(stats, cases) ==
    IF cases = << >>
    THEN [stats |-> stats, exc |-> ""]
    ELSE LET r == signal_case(stats, Head(cases))
         IN  IF r.exc # "" THEN r ELSE signal_loop(r.stats, Tail(cases))

signal_breakdown(cases) ==
    LET r == signal_loop(<< >>, cases)
    IN  IF r.exc # "" THEN None
        ELSE sorted_by_triggered_count(
                [k \in 1..Len(r.stats) |-> with_average(r.stats[k])])

(* C15: get_signal_breakdown never fails because of a malformed record or  *)
(* detector entry (a value that is not a mapping, a score that is missing  *)
(* or not a number, signals or detector_breakdown that is not a mapping),  *)
(* and its answer is the answer for the input without the malformed parts. *)
C15_MalformedSkipped ==
    /\ agg.pc # "signal_failed"
    /\ (agg.pc = "signal_done") =>
          agg.result = signal_breakdown(WithoutMalformed(agg.cases))

(* The two ways C15 fails: the handler answers 500, or the answer lists a  *)
(* detector that only a malformed entry names.                             *)
C15_FailsWith500 ==
    /\ agg.pc = "signal_failed"
    /\ agg.status = 500
    /\ Len(agg.cases) = 1
    /\ agg.cases[1].signals =
          Breakdown(<<Item("d1", PyDict(<<Item("score", None)>>))>>)

C15_MissingScoreListed ==
    /\ agg.pc = "signal_done"
    /\ Len(agg.cases) = 1
    /\ agg.cases[1].signals =
          Breakdown(<<Item("d1", PyDict(<<Item("weight", PyInt(1))>>))>>)
    /\ Len(agg.result) = 1
    /\ signal_breakdown(WithoutMalformed(agg.cases)) = << >>

(* The one malformed shape the code does skip: a value that is no mapping. *)
C15_NonMappingSkipped ==
    /\ agg.pc = "signal_done"
    /\ Len(agg.cases) = 1
    /\ agg.cases[1].status = "analyzed"
    /\ agg.cases[1].signals = Breakdown(<<Item("d1", PyInt(3))>>)
    /\ agg.result = << >>

(***************************************************************************)
(* Failures of the case source and of the mutations (Spec)                 *)
(***************************************************************************)
FailedRead(p) ==
    /\ req[p].handler = "read"
    /\ req[p].pc = "done"
    /\ req[p].status # 200

ReadMisses(p) ==
    /\ req[p].pc = "idle"
    /\ req'[p].pc = "list_cases"

ReadFails(p) ==
    /\ req[p].pc = "list_cases"
    /\ req'[p].pc = "done"

(* C16 as stated: when the case source fails during a cache miss, the      *)
(* store is exactly as it was before the request, so the request has       *)
(* removed nothing from it.                                                *)
C16_Original ==
    \A p \in Procs : FailedRead(p) => req[p].removed = None

(* C16 amended: a failure of the case source is answered 400 with the      *)
(* error's message for a domain error and 500 otherwise, and the request   *)
(* writes no entry: the failing step leaves the store alone, and the       *)
(* lookup before it changes the store at most by removing the user's own   *)
(* expired entry, so that the user's key is absent and a read that finds   *)
(* it absent calls the case source.                                        *)
C16_FailedReadWritesNothing ==
    [][\A p \in Procs :
        /\ ReadFails(p) =>
              /\ cache' = cache
              /\ req'[p].ret = None
              /\ req'[p].detail = <<"str", req'[p].exc>>
              /\ (req'[p].exc = "DomainError") => req'[p].status = 400
              /\ (req'[p].exc # "DomainError") => req'[p].status = 500
        /\ ReadMisses(p) =>
              LET key == ExpectedKey(req'[p].user)
              IN  /\ key \notin DOMAIN cache'
                  /\ \A k \in DOMAIN cache : k # key => k \in DOMAIN cache' /\ cache'[k] = cache[k]
                  /\ DOMAIN cache' \subseteq DOMAIN cache
                  /\ key \in DOMAIN cache =>
                        now > cache[key].expires_at /\ req'[p].removed = cache[key]
                  /\ key \notin DOMAIN cache => req'[p].removed = None
        /\ (req[p].pc = "idle" /\ req'[p].handler = "read"
              /\ ExpectedKey(req'[p].user) \notin DOMAIN cache) => ReadMisses(p)
    ]_vars

C16_Witness ==
    \E p \in Procs :
        /\ FailedRead(p)
        /\ req[p].status = 400
        /\ req[p].exc = "DomainError"
        /\ req[p].removed # None
        /\ ExpectedKey(req[p].user) \notin DOMAIN cache

(* Any other failure is answered 500.                                      *)
C16_GenericReached ==
    \E p \in Procs : FailedRead(p) /\ req[p].status = 500 /\ req[p].exc = "Exception"

MutationReturns(p) ==
    /\ req[p].pc \in {"create_case_from_upload", "queue_analysis"}
    /\ req'[p].pc \in {"create_case_returned", "queue_analysis_returned"}

MutationResponds(p) ==
    /\ req[p].pc \in {"create_case_returned", "queue_analysis_returned"}
    /\ req'[p].pc = "done"

MutationFails(p) ==
    /\ req[p].pc \in {"create_case_from_upload", "queue_analysis"}
    /\ req'[p].pc = "done"

(* C17: in upload_case_document and analyze_case the invalidation of       *)
(* "cases:" + user.id comes after the service call has returned (the case  *)
(* source already holds the mutation and the store is untouched until      *)
(* then) and with the step that returns the success response, after which  *)
(* the store holds no entry under the user's key and every other entry is  *)
(* as before; when the service call raises, the store is unchanged and the *)
(* response is an error.                                                   *)
C17_InvalidateAfterMutation ==
    [][\A p \in Procs :
        /\ MutationReturns(p) => cache' = cache
        /\ MutationResponds(p) =>
              LET key == ExpectedKey(req[p].user)
              IN  /\ req'[p].status = 200
                  /\ source' = source
                  /\ \E i \in 1..Len(source[req[p].user]) :
                        source[req[p].user][i].case_id = req[p].case_id
                  /\ key \notin DOMAIN cache'
                  /\ DOMAIN cache' = DOMAIN cache \ {key}
                  /\ \A k \in DOMAIN cache' : cache'[k] = cache[k]
        /\ MutationFails(p) =>
              /\ cache' = cache
              /\ source' = source
              /\ req'[p].status \in {400, 404, 500}
    ]_vars

C17_Witness ==
    \E p \in Procs :
        /\ req[p].handler = "upload_case_document"
        /\ req[p].pc = "done"
        /\ req[p].status = 200
        /\ req[p].user = UserA
        /\ DOMAIN cache = {ExpectedKey(UserB)}
        /\ source[UserA] # << >>

(* A failed analyze_case with the user's entry still in the store.         *)
C17_FailureKeepsEntry ==
    \E p \in Procs :
        /\ req[p].handler = "analyze_case"
        /\ req[p].pc = "done"
        /\ req[p].status \in {400, 404, 500}
        /\ ExpectedKey(req[p].user) \in DOMAIN cache

(***************************************************************************)
(* Isolation of users (Spec)                                               *)
(***************************************************************************)
EntryOf(c, user_id) ==
    IF ExpectedKey(user_id) \in DOMAIN c THEN c[ExpectedKey(user_id)] ELSE None

(* The user on whose behalf process p takes the step.                      *)
ActingUser(p) == IF req[p].pc = "idle" THEN req'[p].user ELSE req[p].user

(* A list is a past or present state of the user's cases: the same ids in  *)
(* the same places, no longer than the case source.                        *)
ListOf(items, user_id) ==
    /\ Len(items) <= Len(source[user_id])
    /\ \A i \in 1..Len(items) : items[i].case_id = source[user_id][i].case_id

(* C18: a step taken for user u never creates, replaces or removes the     *)
(* entry of another user v, the entry under "cases:v" always holds a list  *)
(* of v's cases, and a read for u returns a list of u's cases.             *)
C18_UsersIsolated ==
    [][\A p \in Procs :
        /\ req'[p] # req[p] =>
              \A v \in Users \ {ActingUser(p)} : EntryOf(cache', v) = EntryOf(cache, v)
        /\ \A v \in Users :
              EntryOf(cache', v) # None => ListOf(EntryOf(cache', v).value.items, v)
        /\ (req'[p].handler = "read" /\ req'[p].pc = "done" /\ req'[p].status = 200) =>
              ListOf(req'[p].ret.items, req'[p].user)
        /\ (req[p].pc = "list_cases" /\ req'[p].pc = "list_cases_returned") =>
              req'[p].cases = source[req[p].user]
    ]_vars

C18_Witness ==
    /\ EntryOf(cache, UserA) # None
    /\ EntryOf(cache, UserB) # None
    /\ EntryOf(cache, UserA).value.items # << >>
    /\ EntryOf(cache, UserB).value.items = << >>
    /\ \E p \in Procs :
          /\ req[p].handler = "read"
          /\ req[p].pc = "done"
          /\ req[p].user = UserB
          /\ req[p].ret = EntryOf(cache, UserB).value

(***************************************************************************)
(* The life of an entry (SpecFair)                                         *)
(***************************************************************************)
SetFor(user_id) ==
    \E p \in Procs :
        /\ req[p].pc = "list_cases_returned"
        /\ req[p].user = user_id
        /\ req'[p].pc = "done"

ReadStarts(p, user_id) ==
    /\ req[p].pc = "idle"
    /\ req'[p].handler = "read"
    /\ req'[p].user = user_id

ReportedAbsent(user_id) ==
    \/ EntryOf(cache, user_id) = None
    \/ now > EntryOf(cache, user_id).expires_at

(* C19: a read that finds a live entry leaves the store as it is and       *)
(* serves the entry's list; an entry appears or changes its expires_at     *)
(* only by the set of a read of its user, which gives it 30 seconds from   *)
(* the time of the set; so a served list has at most 30 seconds.  When the *)
(* sets have stopped, every entry whose expiry lies within the observed    *)
(* time is in the end reported absent, for good.                           *)
C19_ReadsNeverExtendLife ==
    /\ [][\A u \in Users :
            LET e == EntryOf(cache, u)
                f == EntryOf(cache', u)
            IN  /\ (f # None /\ f # e) =>
                      /\ SetFor(u)
                      /\ now' = now
                      /\ f.expires_at = now + 30
                /\ \A p \in Procs :
                      (ReadStarts(p, u) /\ e # None /\ now <= e.expires_at) =>
                          /\ cache' = cache
                          /\ req'[p].pc = "done"
                          /\ req'[p].ret = e.value
                          /\ now - (e.expires_at - 30) <= 30
                          /\ now - (e.expires_at - 30) >= 0
       ]_vars
    /\ <>[](\A u \in Users :
              ReportedAbsent(u) \/ EntryOf(cache, u).expires_at >= MaxClock)

(* A list served from the cache on its last second, after an earlier read  *)
(* of the same entry.                                                      *)
C19_Witness ==
    /\ now = 30
    /\ nreq = 3
    /\ EntryOf(cache, UserA) # None
    /\ EntryOf(cache, UserA).expires_at = 30
    /\ \E p \in Procs :
          /\ req[p].handler = "read"
          /\ req[p].pc = "done"
          /\ req[p].user = UserA
          /\ req[p].calls = 0
          /\ req[p].ret = EntryOf(cache, UserA).value

(* An entry that has outlived its 30 seconds and is reported absent.       *)
C19_ExpiredReached ==
    /\ EntryOf(cache, UserA) # None
    /\ now > EntryOf(cache, UserA).expires_at

(***************************************************************************)
(* The delete of an expiring get (SpecThreads)                             *)
(***************************************************************************)
GetDeletes(t) ==
    /\ thr[t].pc = "get_del"
    /\ thr'[t].pc = "returned"

(* C20: the delete of a get that found an expired entry removes no entry   *)
(* that is live: a fresh entry that another thread's set stored under the  *)
(* key after the get's expiry check is still in the store when the get     *)
(* has completed.                                                          *)
C20_GetRemovesOnlyExpired ==
    [][\A t \in Threads :
        GetDeletes(t) =>
            \A k \in DOMAIN cache :
                now <= cache[k].expires_at =>
                    k \in DOMAIN cache' /\ cache'[k] = cache[k]
    ]_vars

====
